---- MODULE Spec2Model ----
(***************************************************************************)
(* Model of the two notebooks of MetinKONUK/DESIGN-PATTERNS:               *)
(*   - Singleton.ipynb : class SettingsManager (lazy singleton holder      *)
(*     with a dict of settings),                                           *)
(*   - the Factory Method notebook : LoggerFactory.create_logger.          *)
(*                                                                         *)
(* Two specifications are given.  Spec runs every call to completion (the  *)
(* notebook's own, single-threaded use).  SpecThreads runs                 *)
(* SettingsManager.__new__ one step at a time in several threads, the way  *)
(* the interpreter may switch threads between the loads and stores of      *)
(* lines 55-58.                                                            *)
(***************************************************************************)
EXTENDS Integers, Sequences, FiniteSets, TLC

\* ---------------------------------------------------------------- bounds
\* Number of SettingsManager() calls made in one run.
MaxAcquire == 3
\* Number of threads of SpecThreads.
NumThreads == 2

Threads == 1..NumThreads

\* ------------------------------------------------------------ value sets
\* Python's None, as the value of the class slot _instance (object ids are 1, 2, ...).
None == 0
\* Python's None, as the result of dict.get on a missing key.
NoneValue == "None"
\* The exception raised by self._settings when _initialize has not run on self.
AttributeError == "AttributeError"
\* The exception raised by create_logger.
ValueError == "ValueError"

\* Setting names and values the callers use (the notebook's 'theme', 'light',
\* and a second key that _initialize does not set).
Names == {"theme", "font"}
Values == {"dark", "light", "serif"}
\* Arguments given to create_logger: the three the code knows and three it does not.
LoggerTypes == {"console", "file", "database", "Console", "db", ""}

\* History value: no set_setting has been made on a name yet.
NoWrite == "NoWrite"

VARIABLES
  _instance,   \* class attribute SettingsManager._instance: None or an object
  objects,     \* the SettingsManager objects object.__new__ has allocated
  _settings,   \* object -> its _settings dict; an object outside DOMAIN has no such attribute
  refs,        \* the references the SettingsManager() calls have returned, in order
  pc,          \* thread -> the line of __new__ it is about to execute
  tmp,         \* thread -> the object on its evaluation stack
  lastOp,      \* the last completed call: its arguments and its result
  initCount,   \* history: number of _initialize runs
  written,     \* history: name -> value of the last successful set_setting on it
  writtenAt,   \* history: name -> number of references returned before that set_setting
  raced        \* history: a thread ran the test of line 55 while another was in lines 56-57

vars == <<_instance, objects, _settings, refs, pc, tmp, lastOp, initCount,
          written, writtenAt, raced>>

\* ------------------------------------------------------------------ code

\* _initialize's dict literal.
DefaultSettings == [n \in {"theme"} |-> "dark"]

\* Variant of IsNone: the guard of line 55 is lost and every call constructs.
IsNone_Always(inst) == TRUE

\* The test of line 55.
IsNone(inst) == inst = None

\* object.__new__(cls): a fresh object, distinct from every allocated one.
NewObject(objs) == Cardinality(objs) + 1

\* Variant of _initialize: the dict is created without its default entry.
_initialize_NoDefault(heap, self) ==
  [o \in DOMAIN heap \cup {self} |-> IF o = self THEN << >> ELSE heap[o]]

\* self._settings = {'theme': 'dark'}
_initialize(heap, self) ==
  [o \in DOMAIN heap \cup {self} |-> IF o = self THEN DefaultSettings ELSE heap[o]]

\* d[setting_name] = setting_value on a dict d
DictStore(d, n, v) == [x \in DOMAIN d \cup {n} |-> IF x = n THEN v ELSE d[x]]

\* Variant of set_setting: the dict is rebound to {setting_name: setting_value}.
set_setting_Replace(heap, self, n, v) ==
  IF self \in DOMAIN heap
    THEN [heap EXCEPT ![self] = [x \in {n} |-> v]]
    ELSE heap

\* self._settings[setting_name] = setting_value; the heap is left alone when
\* self has no _settings (the statement raises before it stores).
set_setting(heap, self, n, v) ==
  IF self \in DOMAIN heap
    THEN [heap EXCEPT ![self] = DictStore(heap[self], n, v)]
    ELSE heap

\* d.get(setting_name)
DictGet(d, n) == IF n \in DOMAIN d THEN d[n] ELSE NoneValue

\* Variant of get_setting: self._settings[setting_name], which raises on a missing key.
get_setting_Subscript(heap, self, n) ==
  IF self \in DOMAIN heap
    THEN (IF n \in DOMAIN heap[self] THEN heap[self][n] ELSE "KeyError")
    ELSE AttributeError

\* return self._settings.get(setting_name)
get_setting(heap, self, n) ==
  IF self \in DOMAIN heap THEN DictGet(heap[self], n) ELSE AttributeError

\* Variant of create_logger: the "file" and "database" branches are swapped.
create_logger_Swapped(logger_type) ==
  IF logger_type = "console" THEN "ConsoleLogger"
  ELSE IF logger_type = "file" THEN "DatabaseLogger"
  ELSE IF logger_type = "database" THEN "FileLogger"
  ELSE ValueError

\* LoggerFactory.create_logger: the class of the logger returned, or the exception.
create_logger(logger_type) ==
  IF logger_type = "console" THEN "ConsoleLogger"
  ELSE IF logger_type = "file" THEN "FileLogger"
  ELSE IF logger_type = "database" THEN "DatabaseLogger"
  ELSE ValueError

\* ----------------------------------------------------------------- state

NoOp == [op |-> "none", ref |-> 0, name |-> "", value |-> "", result |-> ""]

Init ==
  /\ _instance = None
  /\ objects = {}
  /\ _settings = << >>
  /\ refs = << >>
  /\ pc = [t \in Threads |-> "idle"]
  /\ tmp = [t \in Threads |-> None]
  /\ lastOp = NoOp
  /\ initCount = 0
  /\ written = [n \in Names |-> NoWrite]
  /\ writtenAt = [n \in Names |-> 0]
  /\ raced = FALSE

\* --------------------------------------------------- calls run to completion

\* sm = SettingsManager(): the whole of __new__.
Acquire ==
  /\ Len(refs) < MaxAcquire
  /\ IF IsNone(_instance)
       THEN LET o == NewObject(objects) IN
            /\ objects' = objects \cup {o}
            /\ _instance' = o
            /\ _settings' = _initialize(_settings, o)
            /\ initCount' = initCount + 1
       ELSE UNCHANGED <<objects, _instance, _settings, initCount>>
  /\ refs' = Append(refs, _instance')
  /\ lastOp' = [NoOp EXCEPT !.op = "acquire", !.ref = Len(refs) + 1]
  /\ UNCHANGED <<pc, tmp, written, writtenAt, raced>>

\* refs[i].set_setting(n, v)
SetSetting(i, n, v) ==
  /\ i \in 1..Len(refs)
  /\ _settings' = set_setting(_settings, refs[i], n, v)
  /\ LET ok == refs[i] \in DOMAIN _settings IN
     /\ lastOp' = [op |-> "set_setting", ref |-> i, name |-> n, value |-> v,
                   result |-> IF ok THEN NoneValue ELSE AttributeError]
     /\ written' = IF ok THEN [written EXCEPT ![n] = v] ELSE written
     /\ writtenAt' = IF ok THEN [writtenAt EXCEPT ![n] = Len(refs)] ELSE writtenAt
  /\ UNCHANGED <<_instance, objects, refs, pc, tmp, initCount, raced>>

\* refs[i].get_setting(n)
GetSetting(i, n) ==
  /\ i \in 1..Len(refs)
  /\ lastOp' = [op |-> "get_setting", ref |-> i, name |-> n, value |-> "",
                result |-> get_setting(_settings, refs[i], n)]
  /\ UNCHANGED <<_instance, objects, _settings, refs, pc, tmp, initCount,
                 written, writtenAt, raced>>

\* LoggerFactory.create_logger(t)
CreateLogger(t) ==
  /\ lastOp' = [op |-> "create_logger", ref |-> 0, name |-> t, value |-> "",
                result |-> create_logger(t)]
  /\ UNCHANGED <<_instance, objects, _settings, refs, pc, tmp, initCount,
                 written, writtenAt, raced>>

Next ==
  \/ Acquire
  \/ \E i \in 1..MaxAcquire, n \in Names, v \in Values : SetSetting(i, n, v)
  \/ \E i \in 1..MaxAcquire, n \in Names : GetSetting(i, n)
  \/ \E t \in LoggerTypes : CreateLogger(t)

Spec == Init /\ [][Next]_vars

\* ------------------------------------------- __new__ one step at a time

\* Thread t found _instance empty at line 55 and has not yet finished line 57:
\* it is inside the check-and-construct step of __new__.
InConstruct(t) == pc[t] \in {"l56a", "l56b", "l57a", "l57b"}

\* Number of SettingsManager() calls started so far.
Started == Len(refs) + Cardinality({t \in Threads : pc[t] # "idle"})

\* Thread t calls SettingsManager(): __new__ is entered.
Call(t) ==
  /\ pc[t] = "idle"
  /\ Started < MaxAcquire
  /\ pc' = [pc EXCEPT ![t] = "l55"]
  /\ UNCHANGED <<_instance, objects, _settings, refs, tmp, lastOp, initCount,
                 written, writtenAt, raced>>

\* line 55: if cls._instance is None
Test(t) ==
  /\ pc[t] = "l55"
  /\ pc' = [pc EXCEPT ![t] = IF IsNone(_instance) THEN "l56a" ELSE "l58"]
  /\ raced' = (raced \/ \E u \in Threads \ {t} : InConstruct(u))
  /\ UNCHANGED <<_instance, objects, _settings, refs, tmp, lastOp, initCount,
                 written, writtenAt>>

\* line 56, right-hand side: super().__new__(cls)
Alloc(t) ==
  /\ pc[t] = "l56a"
  /\ LET o == NewObject(objects) IN
     /\ objects' = objects \cup {o}
     /\ tmp' = [tmp EXCEPT ![t] = o]
  /\ pc' = [pc EXCEPT ![t] = "l56b"]
  /\ UNCHANGED <<_instance, _settings, refs, lastOp, initCount, written,
                 writtenAt, raced>>

\* line 56, the store: cls._instance = <the new object>
Store(t) ==
  /\ pc[t] = "l56b"
  /\ _instance' = tmp[t]
  /\ tmp' = [tmp EXCEPT ![t] = None]
  /\ pc' = [pc EXCEPT ![t] = "l57a"]
  /\ UNCHANGED <<objects, _settings, refs, lastOp, initCount, written, writtenAt,
                 raced>>

\* line 57, the load: cls._instance is read again
Load(t) ==
  /\ pc[t] = "l57a"
  /\ tmp' = [tmp EXCEPT ![t] = _instance]
  /\ pc' = [pc EXCEPT ![t] = "l57b"]
  /\ UNCHANGED <<_instance, objects, _settings, refs, lastOp, initCount,
                 written, writtenAt, raced>>

\* line 57, the call: <the object read>._initialize()
Initialize(t) ==
  /\ pc[t] = "l57b"
  /\ _settings' = _initialize(_settings, tmp[t])
  /\ initCount' = initCount + 1
  /\ tmp' = [tmp EXCEPT ![t] = None]
  /\ pc' = [pc EXCEPT ![t] = "l58"]
  /\ UNCHANGED <<_instance, objects, refs, lastOp, written, writtenAt, raced>>

\* line 58: return cls._instance
Return(t) ==
  /\ pc[t] = "l58"
  /\ refs' = Append(refs, _instance)
  /\ lastOp' = [NoOp EXCEPT !.op = "acquire", !.ref = Len(refs) + 1]
  /\ pc' = [pc EXCEPT ![t] = "idle"]
  /\ UNCHANGED <<_instance, objects, _settings, tmp, initCount, written,
                 writtenAt, raced>>

\* The threads' steps of __new__, with the callers' get_setting on any returned
\* reference and the notebook's own write, set_setting('theme', 'light').
NextThreads ==
  \/ \E t \in Threads : Call(t)
  \/ \E t \in Threads : Test(t)
  \/ \E t \in Threads : Alloc(t)
  \/ \E t \in Threads : Store(t)
  \/ \E t \in Threads : Load(t)
  \/ \E t \in Threads : Initialize(t)
  \/ \E t \in Threads : Return(t)
  \/ \E i \in 1..MaxAcquire : SetSetting(i, "theme", "light")
  \/ \E i \in 1..MaxAcquire, n \in Names : GetSetting(i, n)

SpecThreads == Init /\ [][NextThreads]_vars

\* ================================================================ claims

\* The step just taken is a SettingsManager() call returning.
AcquireStep == Len(refs') = Len(refs) + 1

\* The holder is in its Initialized state.
Initialized == _instance # None

\* C1: in a run of complete calls, every reference SettingsManager() returns
\* is the object the first call returned, and at most one object is ever
\* constructed.
C1_SingleInstance ==
  /\ \A i \in 1..Len(refs) : refs[i] = refs[1]
  /\ Cardinality(objects) <= 1

C1_Witness ==
  /\ Len(refs) >= 3
  /\ written["theme"] # NoWrite
  /\ lastOp.op = "get_setting"

\* C2: right after the first SettingsManager() the store is exactly
\* {theme -> dark}; _initialize has run exactly once whenever an instance
\* exists; a later SettingsManager() leaves every store as it was.
C2_OneTimeInit ==
  /\ [](Initialized => initCount = 1)
  /\ [][ /\ (AcquireStep /\ Len(refs) = 0)
              => /\ refs'[1] \in DOMAIN _settings'
                 /\ _settings'[refs'[1]] = DefaultSettings
         /\ (AcquireStep /\ Len(refs) >= 1)
              => /\ _settings' = _settings
                 /\ initCount' = initCount ]_vars

C2_Witness ==
  /\ Len(refs) >= 2
  /\ lastOp.op = "acquire"
  /\ initCount = 1
  /\ writtenAt["theme"] < Len(refs)
  /\ written["theme"] = "light"
  /\ _settings[refs[Len(refs)]]["theme"] = "light"

\* C3: a get_setting(n) through any reference returns the value of the last
\* set_setting(n, v), whichever reference made that write.
C3_MutationVisibility ==
  (lastOp.op = "get_setting" /\ written[lastOp.name] # NoWrite)
    => lastOp.result = written[lastOp.name]

\* The read goes through a reference obtained after the write was made.
C3_Witness ==
  /\ lastOp.op = "get_setting"
  /\ lastOp.name = "theme"
  /\ written["theme"] = "light"
  /\ lastOp.ref > writtenAt["theme"]
  /\ lastOp.result = "light"

\* C4: get_setting(n) on an initialized instance returns None when n is not
\* a key of the store and the stored value when it is; it raises nothing.
C4_AbsentKey ==
  lastOp.op = "get_setting"
    => /\ refs[lastOp.ref] \in DOMAIN _settings
       /\ LET d == _settings[refs[lastOp.ref]] IN
          /\ lastOp.name \notin DOMAIN d => lastOp.result = NoneValue
          /\ lastOp.name \in DOMAIN d => lastOp.result = d[lastOp.name]

C4_Witness ==
  /\ lastOp.op = "get_setting"
  /\ lastOp.name = "font"
  /\ lastOp.result = NoneValue

\* C5: set_setting(n, v) succeeds; afterwards the store maps n to v, has the
\* keys it had plus n, every other key keeps its value, and the holder's
\* instance is the same.
C5_SetFrame ==
  [][ lastOp'.op = "set_setting"
        => LET o == refs[lastOp'.ref]
               n == lastOp'.name
           IN /\ lastOp'.result = NoneValue
              /\ DOMAIN _settings'[o] = DOMAIN _settings[o] \cup {n}
              /\ _settings'[o][n] = lastOp'.value
              /\ \A k \in DOMAIN _settings[o] \ {n} :
                   _settings'[o][k] = _settings[o][k]
              /\ _instance' = _instance
              /\ objects' = objects
              /\ refs' = refs ]_vars

C5_Witness ==
  /\ lastOp.op = "set_setting"
  /\ lastOp.name = "font"
  /\ lastOp.value = "serif"
  /\ _settings[_instance] = [k \in {"theme", "font"} |->
                               IF k = "theme" THEN "light" ELSE "serif"]

\* C6: the holder starts with _instance empty and no object; _instance only
\* ever changes from empty to an object, in the first SettingsManager() call;
\* afterwards no step changes _instance or constructs an object.
C6_Lifecycle ==
  /\ (_instance = None /\ objects = {})
  /\ [][ /\ (_instance' # _instance)
              => (_instance = None /\ AcquireStep /\ Len(refs) = 0)
         /\ Initialized => (_instance' = _instance /\ objects' = objects)
         /\ (AcquireStep /\ Len(refs) = 0) => (Initialized' /\ ~Initialized) ]_vars

C6_Witness ==
  /\ Len(refs) >= 2
  /\ lastOp.op = "acquire"
  /\ Initialized
  /\ objects = {_instance}

\* C7: when __new__ runs one step at a time in several threads, a second
\* object or a second _initialize run occurs only in runs where a thread ran
\* the test of line 55 while another thread was inside lines 56-57 (runs that
\* mutual exclusion around the check-and-construct step rules out); and such
\* a state is reachable.
C7_OnlyByRace ==
  (Cardinality(objects) > 1 \/ initCount > 1) => raced

C7_Witness ==
  /\ raced
  /\ initCount >= 2
  /\ \E i, j \in 1..Len(refs) : refs[i] # refs[j]

\* C8: create_logger returns a ConsoleLogger for "console", a FileLogger for
\* "file", a DatabaseLogger for "database", and raises ValueError for every
\* other argument.
C8_CreateLogger ==
  lastOp.op = "create_logger"
    => lastOp.result =
         CASE lastOp.name = "console" -> "ConsoleLogger"
           [] lastOp.name = "file" -> "FileLogger"
           [] lastOp.name = "database" -> "DatabaseLogger"
           [] OTHER -> ValueError

C8_Witness ==
  /\ lastOp.op = "create_logger"
  /\ lastOp.name = "Console"
  /\ lastOp.result = ValueError

\* C9, as claimed: every reference SettingsManager() returns points to an
\* object that has its _settings, with 'theme' a key, and get_setting on it
\* does not fail, also when the calls of several threads interleave.
C9_AlwaysInitialized ==
  /\ \A i \in 1..Len(refs) :
       /\ refs[i] \in DOMAIN _settings
       /\ "theme" \in DOMAIN _settings[refs[i]]
  /\ lastOp.op = "get_setting" => lastOp.result # AttributeError

\* C9, amended: the same, in the runs where no thread ran the test of line 55
\* while another thread was inside lines 56-57.
C9_InitializedUnlessRaced ==
  ~raced => C9_AlwaysInitialized

C9_Witness ==
  /\ ~raced
  /\ Len(refs) >= 2
  /\ \E t \in Threads : pc[t] = "l58"
  /\ lastOp.op = "get_setting"
  /\ lastOp.result = "dark"

\* C10: once an instance exists, no step removes a key from a store,
\* get_setting and SettingsManager() leave the stores unchanged, 'theme' is
\* always a key and get_setting('theme') never returns None.
C10_KeysOnlyGrow ==
  /\ [](Initialized => "theme" \in DOMAIN _settings[_instance])
  /\ []((lastOp.op = "get_setting" /\ lastOp.name = "theme")
          => lastOp.result # NoneValue)
  /\ [][ Initialized
           => /\ \A o \in DOMAIN _settings :
                   /\ o \in DOMAIN _settings'
                   /\ DOMAIN _settings[o] \subseteq DOMAIN _settings'[o]
              /\ lastOp'.op \in {"get_setting", "acquire"}
                   => _settings' = _settings ]_vars

C10_Witness ==
  /\ lastOp.op = "get_setting"
  /\ lastOp.name = "theme"
  /\ lastOp.result = "serif"
  /\ DOMAIN _settings[_instance] = {"theme", "font"}
  /\ Len(refs) >= 2

====
